---- MODULE Spec2Model ----
(***************************************************************************)
(* State-machine model of the GCP automation script (src/main.py): the    *)
(* init / setup / reset commands, the resource log file                   *)
(* container/gcp_created_resources.json they share, and the cloud         *)
(* resources (storage buckets, Cloud Run services) they create and        *)
(* delete.  Every cloud call, gcloud command and HTTP call succeeds or    *)
(* fails nondeterministically; every file operation is a step of its own. *)
(***************************************************************************)
EXTENDS Integers, Sequences, FiniteSets, TLC

\* ------------------------------------------------------------ bounds
NumProcs == 2
NumBucketNames == 2
MaxBuckets == 2

Procs == 1..NumProcs

\* ------------------------------------------------------------ values
\* Python's None: the result of dict.get on a missing key.
None == "<None>"

\* automation-bucket-<8 hex chars>: the names uuid4 can produce, cut down to
\* the first NumBucketNames of a fixed list.
AllBucketNames ==
    << "automation-bucket-00000001", "automation-bucket-00000002",
       "automation-bucket-00000003", "automation-bucket-00000004" >>
BucketNames == { AllBucketNames[k] : k \in 1..NumBucketNames }

\* --service-name: the default, another name, and the empty string.
DefaultServiceName == "example-fetcher"
ServiceNames == { DefaultServiceName, "svc1", "" }

\* --creds: a path that does not exist, a file that is no service-account
\* key, a usable key.
CredsInputs == { "missing", "invalid", "ok" }

\* --project: absent (None) or given.
ProjectInputs == { None, "demo" }

Commands == { "init", "setup", "reset" }

\* What requests.get / r.json() can do in verify_service_and_fetch.
VerifyOutcomes == { "json", "non_json", "timeout", "connection_error" }

\* ------------------------------------------------------------ the file
\* The resource log file: absent, or present with its content.  The content
\* is the empty sequence for a file of zero bytes (just opened with "w") and
\* a one-element sequence holding the JSON object at the start of the file
\* otherwise; size is the number of bytes in the file, more than the
\* document's own when bytes of an earlier, longer write follow it.  A JSON
\* object is a function from its keys to their values.
NoFile == [ exists |-> FALSE, data |-> << >>, size |-> 0 ]

\* The length of the text json.dump writes for a string, a list of strings
\* and an object of the resource log (separators ", " and ": ").
StrSize(str) == Len(str) + 2

RECURSIVE ListSize(_)
ListSize(seq) ==
    IF seq = << >> THEN 2
    ELSE IF Len(seq) = 1 THEN 2 + StrSize(seq[1])
    ELSE StrSize(seq[1]) + 2 + ListSize(Tail(seq))

MemberSize(obj, key) ==
    IF key \notin DOMAIN obj THEN 0
    ELSE StrSize(key) + 2
         + ( IF key = "buckets" THEN ListSize(obj[key])
                                ELSE StrSize(obj[key]) ) + 2

JsonSize(obj) ==
    IF DOMAIN obj = {} THEN 2
    ELSE MemberSize(obj, "buckets") + MemberSize(obj, "cloud_run_service")
         + MemberSize(obj, "cloud_run_url")

\* open(RESOURCE_LOG_FILE, "w"): creates or truncates the file.
OpenForWrite(file) == [ exists |-> TRUE, data |-> << >>, size |-> 0 ]

\* json.dump(obj, f) followed by the close of the with-block: the buffered
\* text goes to the file in one write at offset 0 of the descriptor, over
\* whatever the file holds by then.
JsonDump(file, obj) ==
    [ exists |-> TRUE, data |-> << obj >>,
      size |-> IF file.size > JsonSize(obj) THEN file.size
                                            ELSE JsonSize(obj) ]

\* os.path.exists(RESOURCE_LOG_FILE)
PathExists(file) == file.exists

\* json.load(f) succeeds only on a file that holds one complete document
\* and nothing after it.
JsonLoadable(file) ==
    /\ file.exists
    /\ Len(file.data) = 1
    /\ file.size = JsonSize(file.data[1])
JsonLoad(file) == file.data[1]

\* Fault variant of OsRemove: the file is left in place.
OsRemoveKeepsFile(file) == file

\* os.remove(RESOURCE_LOG_FILE)
OsRemove(file) == NoFile

\* dict.get(key, default)
Get(obj, key, default) == IF key \in DOMAIN obj THEN obj[key] ELSE default

\* Fault variant of FirstRecord: the first write records the bucket alone.
FirstRecordBucketOnly(bucket, service) == [ buckets |-> << bucket >> ]

\* created_resources = {"buckets": [bucket.name], "cloud_run_service": service_name}
FirstRecord(bucket, service) ==
    [ buckets |-> << bucket >>, cloud_run_service |-> service ]

\* created_resources["cloud_run_url"] = service_url
WithUrl(obj, url) ==
    [ k \in (DOMAIN obj) \cup { "cloud_run_url" } |->
        IF k = "cloud_run_url" THEN url ELSE obj[k] ]

\* value(status.url) of the deployed service.
ServiceUrl(service) == "https://" \o service \o ".run.app"

\* `if service_name:` -- None and the empty string are falsy.
Truthy(s) == s # None /\ s # ""

\* Fault variant of ProjectMissing: the --project check is left out.
ProjectNeverMissing(project) == FALSE

\* `if not args.project`
ProjectMissing(project) == ~ Truthy(project)

\* ------------------------------------------------------------ state
VARIABLES
    ledger,         \* the resource log file on disk
    cloudBuckets,   \* names of the buckets that exist in the cloud project
    cloudServices,  \* names of the Cloud Run services that exist
    run,            \* per invocation of the script: its position and locals
    web             \* the deployed container: the GET / request in progress

vars == << ledger, cloudBuckets, cloudServices, run, web >>

\* A local that has not been assigned yet.
Unset == [ unset |-> TRUE ]

\* One external operation the script performed, with its argument and
\* whether it returned (ok) or raised.
Call(op, arg, ok) == [ op |-> op, arg |-> arg, ok |-> ok ]

\* An invocation that has not been started.
IdleRun ==
    [ pc |-> "idle", command |-> None, creds |-> None, project |-> None,
      service_name |-> None, bucket_name |-> None,
      created_resources |-> Unset, service_url |-> None, idx |-> 0,
      unlinked |-> FALSE,
      calls |-> << >>, error |-> None, report |-> None, exit_code |-> -1,
      pre_ledger |-> NoFile, pre_buckets |-> {}, pre_services |-> {},
      prev_command |-> None, prev_report |-> None ]

\* The container between requests, nothing fetched and nothing sent.
IdleWeb ==
    [ pc |-> "idle", k_service |-> None, upstream |-> None,
      body |-> None, status_code |-> None, response |-> None ]

Init ==
    /\ web = IdleWeb
    /\ ledger = NoFile
    /\ cloudBuckets = {}
    /\ cloudServices = {}
    /\ run = [ p \in Procs |-> IdleRun ]

Running(p) == run[p].pc \notin { "idle", "done" }

\* The process ends: sys.exit(code), a return from main, or a traceback.
Finish(r, code, report) ==
    [ r EXCEPT !.pc = "done", !.exit_code = code, !.report = report ]

\* An exception nobody catches: the interpreter prints the traceback and
\* exits with status 1.
Unhandled(r, op) ==
    [ Finish(r, 1, "Traceback:" \o op) EXCEPT !.error = op ]

Logged(r, op, arg, ok) == [ r EXCEPT !.calls = Append(@, Call(op, arg, ok)) ]

\* ------------------------------------------------------------ the CLI
\* `python main.py <command> --creds <path> [--project <id>]
\* [--service-name <name>]`: argparse has accepted the arguments.
Start(p) ==
    /\ ~ Running(p)
    /\ \E command \in Commands, creds \in CredsInputs,
          project \in ProjectInputs, service_name \in ServiceNames :
          \* only setup reads --service-name
          /\ command # "setup" => service_name = DefaultServiceName
          /\ run' = [ run EXCEPT ![p] =
                    [ IdleRun EXCEPT
                        !.pc = "load_credentials",
                        !.command = command, !.creds = creds,
                        !.project = project, !.service_name = service_name,
                        !.pre_ledger = ledger,
                        !.pre_buckets = cloudBuckets,
                        !.pre_services = cloudServices,
                        !.prev_command = run[p].command,
                        !.prev_report = run[p].report ] ]
    /\ UNCHANGED << ledger, cloudBuckets, cloudServices, web >>

\* load_credentials(args.creds) in __main__: a missing path raises
\* FileNotFoundError, which __main__ turns into exit(1); a file that is not
\* a key raises inside from_service_account_file, which nobody catches.
MainLoadCredentials(p) ==
    /\ run[p].pc = "load_credentials"
    /\ run' = [ run EXCEPT ![p] =
                 CASE @.creds = "missing" ->
                        Finish(@, 1, "CredentialNotFound")
                   [] @.creds = "invalid" ->
                        Unhandled(@, "load_credentials")
                   [] OTHER -> [ @ EXCEPT !.pc = "dispatch" ] ]
    /\ UNCHANGED << ledger, cloudBuckets, cloudServices, web >>

\* The command dispatch of __main__, with the --project check of setup and
\* reset.  gcp_setup and gcp_reset load the credentials a second time from
\* the same path and build the storage client.
MainDispatch(p) ==
    /\ run[p].pc = "dispatch"
    /\ run' = [ run EXCEPT ![p] =
                 CASE @.command = "init" -> [ @ EXCEPT !.pc = "gcp_init" ]
                   [] ProjectMissing(@.project) ->
                        Finish(@, 1, "ProjectRequired")
                   [] @.command = "setup" ->
                        [ @ EXCEPT !.pc = "create_bucket" ]
                   [] OTHER -> [ @ EXCEPT !.pc = "reset_exists" ] ]
    /\ UNCHANGED << ledger, cloudBuckets, cloudServices, web >>

\* Fault variant of GcpInit: init also starts from a clean slate by
\* removing the resource log.
GcpInitClearsLog(p) ==
    /\ run[p].pc = "gcp_init"
    /\ \E ok \in BOOLEAN :
          run' = [ run EXCEPT ![p] =
                    Finish(Logged(@, "list_buckets", "", ok), 0,
                           IF ok THEN "AccessVerified" ELSE "InitFailed") ]
    /\ ledger' = NoFile
    /\ UNCHANGED << cloudBuckets, cloudServices, web >>

\* gcp_init: list the buckets; a failure is printed, not raised.
GcpInit(p) ==
    /\ run[p].pc = "gcp_init"
    /\ \E ok \in BOOLEAN :
          run' = [ run EXCEPT ![p] =
                    Finish(Logged(@, "list_buckets", "", ok), 0,
                           IF ok THEN "AccessVerified" ELSE "InitFailed") ]
    /\ UNCHANGED << ledger, cloudBuckets, cloudServices, web >>

\* ------------------------------------------------------------ setup
\* The try/except of gcp_setup around build, deploy and verification: the
\* exception is printed, "GCP Setup Complete." follows, the process exits 0.
SetupCaught(r, op, arg) ==
    [ Finish(Logged(r, op, arg, FALSE), 0, "SetupComplete")
        EXCEPT !.error = op ]

\* Fault variant of CreateBucketFailed: the exception is caught and printed
\* and gcp_setup carries on with the name it drew.
CreateBucketCaught(r, name) ==
    [ Logged(r, "create_bucket", name, FALSE) EXCEPT
        !.error = "create_bucket", !.bucket_name = name,
        !.pc = "open_first" ]

\* client.create_bucket raised: gcp_setup has no try around the call, so
\* the exception ends the process.
CreateBucketFailed(r, name) ==
    Unhandled(Logged(r, "create_bucket", name, FALSE), "create_bucket")

\* client.create_bucket on a freshly drawn name.  The call fails when the
\* name is taken (bucket names are global) and may fail for any other
\* reason; nothing catches the exception.
CreateBucket(p) ==
    /\ run[p].pc = "create_bucket"
    /\ \E name \in BucketNames, ok \in BOOLEAN :
          /\ ok => name \notin cloudBuckets
          /\ cloudBuckets' = IF ok THEN cloudBuckets \cup { name }
                                   ELSE cloudBuckets
          /\ run' = [ run EXCEPT ![p] =
                       IF ok
                       THEN [ Logged(@, "create_bucket", name, TRUE) EXCEPT
                                !.bucket_name = name, !.pc = "open_first" ]
                       ELSE CreateBucketFailed(@, name) ]
    /\ UNCHANGED << ledger, cloudServices, web >>

\* Fault variant of OpenFirst: the new bucket is appended to the list the
\* resource log already holds.
OpenFirstMerges(p) ==
    /\ run[p].pc = "open_first"
    /\ ledger' = OpenForWrite(ledger)
    /\ run' = [ run EXCEPT ![p] =
                 [ Logged(@, "open_w", "", TRUE) EXCEPT
                     !.created_resources =
                         [ buckets |->
                             ( IF JsonLoadable(ledger)
                               THEN Get(JsonLoad(ledger), "buckets", << >>)
                               ELSE << >> )
                             \o << run[p].bucket_name >>,
                           cloud_run_service |-> run[p].service_name ],
                     !.pc = "dump_first" ] ]
    /\ UNCHANGED << cloudBuckets, cloudServices, web >>

\* created_resources = {...}; open(RESOURCE_LOG_FILE, "w")
OpenFirst(p) ==
    /\ run[p].pc = "open_first"
    /\ ledger' = OpenForWrite(ledger)
    /\ run' = [ run EXCEPT ![p] =
                 [ Logged(@, "open_w", "", TRUE) EXCEPT
                     !.created_resources =
                         FirstRecord(run[p].bucket_name,
                                     run[p].service_name),
                     !.pc = "dump_first" ] ]
    /\ UNCHANGED << cloudBuckets, cloudServices, web >>

\* The file a run has open for writing was removed by another run
\* (POSIX): the path is gone, and what the run writes goes to the unlinked
\* file, not to the path.
WritePositions == { "dump_first", "dump_second" }

WriteThrough(file, r, obj) ==
    IF r.unlinked THEN file ELSE JsonDump(file, obj)

\* Fault variant of DumpFirst: nothing is written until the run is over.
DumpFirstSkipped(p) ==
    /\ run[p].pc = "dump_first"
    /\ run' = [ run EXCEPT ![p].pc = "gcloud_auth" ]
    /\ UNCHANGED << ledger, cloudBuckets, cloudServices, web >>

\* json.dump(created_resources, f) and the end of the with-block.
DumpFirst(p) ==
    /\ run[p].pc = "dump_first"
    /\ ledger' = WriteThrough(ledger, run[p], run[p].created_resources)
    /\ run' = [ run EXCEPT ![p] =
                 [ Logged(@, "json_dump", "", TRUE) EXCEPT
                     !.unlinked = FALSE, !.pc = "gcloud_auth" ] ]
    /\ UNCHANGED << cloudBuckets, cloudServices, web >>

\* One gcloud step of build_and_deploy_cloud_run that creates nothing the
\* script tracks: it returns, or run_cmd raises RuntimeError.
GcloudStep(p, at, op, next) ==
    /\ run[p].pc = at
    /\ \E ok \in BOOLEAN :
          run' = [ run EXCEPT ![p] =
                    IF ok
                    THEN [ Logged(@, op, "", TRUE) EXCEPT !.pc = next ]
                    ELSE SetupCaught(@, op, "") ]
    /\ UNCHANGED << ledger, cloudBuckets, cloudServices, web >>

\* gcloud auth activate-service-account; gcloud config set project
GcloudAuthActivate(p) ==
    GcloudStep(p, "gcloud_auth", "gcloud_auth", "enable_apis")

\* gcloud services enable, for each of the three APIs
EnableApis(p) ==
    GcloudStep(p, "enable_apis", "gcloud_services_enable", "builds_submit")

\* gcloud builds submit
BuildsSubmit(p) ==
    GcloudStep(p, "builds_submit", "gcloud_builds_submit", "run_deploy")

\* gcloud run deploy: on success the service exists (deploying to an
\* existing service replaces its revision).  An empty service name is
\* rejected by gcloud.
RunDeploy(p) ==
    /\ run[p].pc = "run_deploy"
    /\ \E ok \in BOOLEAN :
          /\ ok => run[p].service_name # ""
          /\ cloudServices' = IF ok
                              THEN cloudServices \cup { run[p].service_name }
                              ELSE cloudServices
          /\ run' = [ run EXCEPT ![p] =
                       IF ok
                       THEN [ Logged(@, "gcloud_run_deploy",
                                     @.service_name, TRUE)
                                EXCEPT !.pc = "describe" ]
                       ELSE SetupCaught(@, "gcloud_run_deploy",
                                        @.service_name) ]
    /\ UNCHANGED << ledger, cloudBuckets, web >>

\* gcloud run services describe --format value(status.url)
Describe(p) ==
    /\ run[p].pc = "describe"
    /\ \E ok \in BOOLEAN :
          run' = [ run EXCEPT ![p] =
                    IF ok
                    THEN [ Logged(@, "gcloud_run_describe",
                                  @.service_name, TRUE)
                             EXCEPT !.service_url =
                                        ServiceUrl(run[p].service_name),
                                    !.pc = "verify" ]
                    ELSE SetupCaught(@, "gcloud_run_describe",
                                     @.service_name) ]
    /\ UNCHANGED << ledger, cloudBuckets, cloudServices, web >>

\* Fault variant of VerifyRaises: a GET that fails raises out of
\* verify_service_and_fetch into the try/except of gcp_setup.
VerifyRaisesOnFailedGet(outcome) ==
    outcome \in { "timeout", "connection_error" }

\* What verify_service_and_fetch lets out: every exception of the GET and
\* of the JSON decoding is caught inside it, so the call always returns.
VerifyRaises(outcome) == FALSE

\* time.sleep(5); verify_service_and_fetch(service_url)
VerifyService(p) ==
    /\ run[p].pc = "verify"
    /\ \E outcome \in VerifyOutcomes :
          run' = [ run EXCEPT ![p] =
                    IF VerifyRaises(outcome)
                    THEN SetupCaught(@, "requests_get", outcome)
                    ELSE [ Logged(@, "requests_get", outcome,
                                  outcome \in { "json", "non_json" })
                             EXCEPT !.pc = "open_second" ] ]
    /\ UNCHANGED << ledger, cloudBuckets, cloudServices, web >>

\* created_resources["cloud_run_url"] = service_url; open(..., "w")
OpenSecond(p) ==
    /\ run[p].pc = "open_second"
    /\ ledger' = OpenForWrite(ledger)
    /\ run' = [ run EXCEPT ![p] =
                 [ Logged(@, "open_w", "", TRUE) EXCEPT
                     !.created_resources =
                         WithUrl(run[p].created_resources,
                                 run[p].service_url),
                     !.pc = "dump_second" ] ]
    /\ UNCHANGED << cloudBuckets, cloudServices, web >>

\* json.dump(created_resources, f); print("GCP Setup Complete.")
DumpSecond(p) ==
    /\ run[p].pc = "dump_second"
    /\ ledger' = WriteThrough(ledger, run[p], run[p].created_resources)
    /\ run' = [ run EXCEPT ![p] =
                 [ Finish(Logged(@, "json_dump", "", TRUE), 0,
                          "SetupComplete") EXCEPT !.unlinked = FALSE ] ]
    /\ UNCHANGED << cloudBuckets, cloudServices, web >>

\* ------------------------------------------------------------ reset
\* if not os.path.exists(RESOURCE_LOG_FILE): print(...); return
ResetExists(p) ==
    /\ run[p].pc = "reset_exists"
    /\ run' = [ run EXCEPT ![p] =
                 IF PathExists(ledger)
                 THEN [ Logged(@, "exists", "", TRUE) EXCEPT
                          !.pc = "reset_load" ]
                 ELSE Finish(Logged(@, "exists", "", FALSE), 0,
                             "NothingToDo") ]
    /\ UNCHANGED << ledger, cloudBuckets, cloudServices, web >>

\* Fault variant of AfterBucket: the loop stops one bucket short.
AfterBucketOneShort(obj, idx) ==
    IF idx + 1 < Len(Get(obj, "buckets", << >>)) THEN "reset_bucket"
                                                   ELSE "reset_service"

\* The next position of gcp_reset once bucket number idx has been handled:
\* the next bucket of the list, or the service.
AfterBucket(obj, idx) ==
    IF idx < Len(Get(obj, "buckets", << >>)) THEN "reset_bucket"
                                               ELSE "reset_service"

\* with open(RESOURCE_LOG_FILE) as f: created_resources = json.load(f)
\* open raises when the file has gone, json.load when it holds no complete
\* document; neither is caught.
ResetLoad(p) ==
    /\ run[p].pc = "reset_load"
    /\ run' = [ run EXCEPT ![p] =
                 IF JsonLoadable(ledger)
                 THEN [ Logged(@, "json_load", "", TRUE) EXCEPT
                          !.created_resources = JsonLoad(ledger),
                          !.idx = 0,
                          !.pc = AfterBucket(JsonLoad(ledger), 0) ]
                 ELSE Unhandled(Logged(@, "json_load", "", FALSE),
                                "json_load") ]
    /\ UNCHANGED << ledger, cloudBuckets, cloudServices, web >>

\* Fault variant of AfterBucketFailure: the try encloses the whole loop, so
\* the first failure leaves it.
AfterBucketFailureLeavesLoop(obj, idx) == "reset_service"

\* Where the bucket loop goes after bucket.delete raised: the exception is
\* caught inside the loop body, so the loop carries on.
AfterBucketFailure(obj, idx) == AfterBucket(obj, idx)

\* One iteration of `for bucket_name in created_resources.get("buckets", [])`:
\* bucket.delete(force=True), which raises when the bucket does not exist
\* and may raise for any other reason.
ResetDeleteBucket(p) ==
    /\ run[p].pc = "reset_bucket"
    /\ LET obj  == run[p].created_resources
           k    == run[p].idx + 1
           name == Get(obj, "buckets", << >>)[k]
       IN  \E ok \in BOOLEAN :
              /\ ok => name \in cloudBuckets
              /\ cloudBuckets' = IF ok THEN cloudBuckets \ { name }
                                       ELSE cloudBuckets
              /\ run' = [ run EXCEPT ![p] =
                           [ Logged(@, "bucket_delete", name, ok) EXCEPT
                               !.idx = k,
                               !.pc = IF ok THEN AfterBucket(obj, k)
                                      ELSE AfterBucketFailure(obj, k) ] ]
    /\ UNCHANGED << ledger, cloudServices, web >>

\* service_name = created_resources.get("cloud_run_service")
\* if service_name: gcloud run services delete ..., failure caught.
ResetDeleteService(p) ==
    /\ run[p].pc = "reset_service"
    /\ LET name == Get(run[p].created_resources, "cloud_run_service", None)
       IN  IF Truthy(name)
           THEN \E ok \in BOOLEAN :
                   /\ ok => name \in cloudServices
                   /\ cloudServices' = IF ok THEN cloudServices \ { name }
                                             ELSE cloudServices
                   /\ run' = [ run EXCEPT ![p] =
                                [ Logged(@, "gcloud_run_delete", name, ok)
                                    EXCEPT !.pc = "reset_remove" ] ]
           ELSE /\ cloudServices' = cloudServices
                /\ run' = [ run EXCEPT ![p].pc = "reset_remove" ]
    /\ UNCHANGED << ledger, cloudBuckets, web >>

\* os.remove(RESOURCE_LOG_FILE); print("GCP Reset Complete.")
\* os.remove raises FileNotFoundError on a file that has gone.
ResetRemove(p) ==
    /\ run[p].pc = "reset_remove"
    /\ ledger' = IF PathExists(ledger) THEN OsRemove(ledger) ELSE ledger
    /\ run' = [ q \in Procs |->
                 IF q = p
                 THEN IF PathExists(ledger)
                      THEN Finish(Logged(run[p], "os_remove", "", TRUE), 0,
                                  "ResetComplete")
                      ELSE Unhandled(Logged(run[p], "os_remove", "", FALSE),
                                     "os_remove")
                 ELSE IF PathExists(ledger) /\ run[q].pc \in WritePositions
                      THEN [ run[q] EXCEPT !.unlinked = TRUE ]
                      ELSE run[q] ]
    /\ UNCHANGED << cloudBuckets, cloudServices, web >>

\* ------------------------------------------------------------ behaviours
Step(p) ==
    \/ MainLoadCredentials(p)
    \/ MainDispatch(p)
    \/ GcpInit(p)
    \/ CreateBucket(p)
    \/ OpenFirst(p)
    \/ DumpFirst(p)
    \/ GcloudAuthActivate(p)
    \/ EnableApis(p)
    \/ BuildsSubmit(p)
    \/ RunDeploy(p)
    \/ Describe(p)
    \/ VerifyService(p)
    \/ OpenSecond(p)
    \/ DumpSecond(p)
    \/ ResetExists(p)
    \/ ResetLoad(p)
    \/ ResetDeleteBucket(p)
    \/ ResetDeleteService(p)
    \/ ResetRemove(p)

\* The operator runs one invocation at a time, each to its end.
Next ==
    \/ Start(1)
    \/ Step(1)

Spec == Init /\ [][Next]_vars

\* ---------------------------------------------- any resource log on disk
\* The bucket lists a resource log can hold, up to MaxBuckets names.
BucketSeqs == UNION { [ 1..n -> BucketNames ] : n \in 0..MaxBuckets }

\* A JSON object of the schema {"buckets": [...], "cloud_run_service": ...,
\* "cloud_run_url": ...}, each key present or not.
LedgerObject(hasBuckets, buckets, service, url) ==
    [ k \in (IF hasBuckets THEN { "buckets" } ELSE {})
            \cup (IF service # None THEN { "cloud_run_service" } ELSE {})
            \cup (IF url # None THEN { "cloud_run_url" } ELSE {}) |->
        CASE k = "buckets" -> buckets
          [] k = "cloud_run_service" -> service
          [] OTHER -> url ]

LedgerObjects ==
    { LedgerObject(TRUE, bs, sv, u) :
        bs \in BucketSeqs, sv \in ServiceNames \cup { None },
        u \in { None } } \cup
    { LedgerObject(TRUE, bs, sv, ServiceUrl(sv)) :
        bs \in BucketSeqs, sv \in ServiceNames \ { "" } } \cup
    { LedgerObject(FALSE, << >>, sv, None) : sv \in ServiceNames \cup { None } }

Range(seq) == { seq[k] : k \in DOMAIN seq }

\* The script finds the disk and the project as earlier invocations (or the
\* operator) left them: no resource log, a log of zero bytes, or a log
\* holding an object of the schema, whose resources exist.
InitLedger ==
    /\ web = IdleWeb
    /\ ledger \in { NoFile, OpenForWrite(NoFile) }
                   \cup { JsonDump(NoFile, o) : o \in LedgerObjects }
    /\ cloudBuckets =
         IF JsonLoadable(ledger)
         THEN Range(Get(JsonLoad(ledger), "buckets", << >>)) ELSE {}
    /\ cloudServices =
         IF JsonLoadable(ledger)
            /\ Truthy(Get(JsonLoad(ledger), "cloud_run_service", None))
         THEN { JsonLoad(ledger).cloud_run_service } ELSE {}
    /\ run = [ p \in Procs |-> IdleRun ]

SpecLedger == InitLedger /\ [][Next]_vars

\* ------------------------------------------------ two invocations at once
\* An invocation that passes its precondition checks, started once.
ConcStart(p) ==
    /\ run[p].pc = "idle"
    /\ \E command \in Commands, service_name \in ServiceNames :
          /\ command # "setup" => service_name = DefaultServiceName
          /\ run' = [ run EXCEPT ![p] =
                       [ IdleRun EXCEPT
                           !.pc = "load_credentials",
                           !.command = command, !.creds = "ok",
                           !.project = "demo",
                           !.service_name = service_name,
                           !.pre_ledger = ledger,
                           !.pre_buckets = cloudBuckets,
                           !.pre_services = cloudServices ] ]
    /\ UNCHANGED << ledger, cloudBuckets, cloudServices, web >>

\* The disk and the project as one earlier setup run leaves them: the
\* bucket alone, the bucket with a service that has no URL on record, or
\* the full record; or nothing at all.
InitConc ==
    /\ web = IdleWeb
    /\ run = [ p \in Procs |-> IdleRun ]
    /\ \/ /\ ledger = NoFile
          /\ cloudBuckets = {}
          /\ cloudServices = {}
       \/ \E b \in BucketNames, sv \in ServiceNames :
             /\ cloudBuckets = { b }
             /\ \/ /\ ledger = JsonDump(NoFile, FirstRecord(b, sv))
                   /\ cloudServices \in { {}, { sv } \ { "" } }
                \/ /\ sv # ""
                   /\ ledger = JsonDump(NoFile, WithUrl(FirstRecord(b, sv),
                                                        ServiceUrl(sv)))
                   /\ cloudServices = { sv }

\* Two invocations against the same resource log, their steps interleaved
\* in any order: the script takes no lock.
NextConc ==
    \/ ConcStart(1)
    \/ ConcStart(2)
    \/ Step(1)
    \/ Step(2)

SpecConc == InitConc /\ [][NextConc]_vars

\* ------------------------------------------- the deployed container, GET /
\* body[:2000] keeps at most this many characters.
ExcerptLimit == 2000

\* How far on either side of the limit the lengths of the fetched texts go.
MaxSlack == 2

\* A text is known by where it came from and by its length in characters.
Text(kind, len) == [ kind |-> kind, len |-> len ]

\* text[:n] for n >= 0: the first n characters, all of them if fewer.
Slice(text, n) == [ text EXCEPT !.len = IF @ < n THEN @ ELSE n ]

TextLens == { 0 } \cup ((ExcerptLimit - MaxSlack) .. (ExcerptLimit + MaxSlack))

\* Status codes example.com may answer with.
UpstreamStatuses == { 200, 204, 404, 500, 503 }

\* os.environ.get("K_SERVICE"): set on Cloud Run, absent in a local run.
KServiceValues == { None, DefaultServiceName }

\* f"ERROR_FETCHING: {e}"
ErrorBody(e) == Text("ERROR_FETCHING", Len("ERROR_FETCHING: ") + e.len)

ExcerptWhole(body) == body

\* body[:2000]
Excerpt(body) == Slice(body, ExcerptLimit)

\* Flask routes a GET / to index().
IndexRequest ==
    /\ web.pc \in { "idle", "sent" }
    /\ \E k \in KServiceValues :
          web' = [ IdleWeb EXCEPT !.pc = "fetch", !.k_service = k ]
    /\ UNCHANGED << ledger, cloudBuckets, cloudServices, run >>

\* requests.get returns a response, whatever its status.
RequestsGetReturns ==
    /\ web.pc = "fetch"
    /\ \E status \in UpstreamStatuses, len \in TextLens :
          web' = [ web EXCEPT
                     !.pc = "respond",
                     !.upstream = [ raised |-> FALSE, status |-> status ],
                     !.body = Text("resp.text", len),
                     !.status_code = status ]
    /\ UNCHANGED << ledger, cloudBuckets, cloudServices, run >>

\* requests.get raises: timeout, DNS failure, refused connection.
RequestsGetRaises ==
    /\ web.pc = "fetch"
    /\ \E len \in TextLens :
          web' = [ web EXCEPT
                     !.pc = "respond",
                     !.upstream = [ raised |-> TRUE, status |-> None ],
                     !.body = ErrorBody(Text("str(e)", len)),
                     !.status_code = 500 ]
    /\ UNCHANGED << ledger, cloudBuckets, cloudServices, run >>

\* return jsonify(info), status_code
IndexReturn ==
    /\ web.pc = "respond"
    /\ web' = [ web EXCEPT
                  !.pc = "sent",
                  !.response =
                      [ status |-> web.status_code,
                        info |-> [ service_env |->
                                       [ K_SERVICE |-> web.k_service ],
                                   example_status |-> web.status_code,
                                   example_excerpt |-> Excerpt(web.body) ] ] ]
    /\ UNCHANGED << ledger, cloudBuckets, cloudServices, run >>

NextContainer ==
    \/ IndexRequest
    \/ RequestsGetReturns
    \/ RequestsGetRaises
    \/ IndexReturn

SpecContainer == Init /\ [][NextContainer]_vars

TypeOK ==
    /\ ledger.exists \in BOOLEAN
    /\ ledger.size >= 0
    /\ Len(ledger.data) \in { 0, 1 }
    /\ cloudBuckets \subseteq BucketNames
    /\ cloudServices \subseteq ServiceNames
    /\ \A p \in Procs : run[p].exit_code \in { -1, 0, 1 }

\* ------------------------------------------------------------ properties
\* The steps of build_and_deploy_cloud_run, by the name they are logged under.
BuildDeployOps ==
    { "gcloud_auth", "gcloud_services_enable", "gcloud_builds_submit",
      "gcloud_run_deploy", "gcloud_run_describe" }

\* A setup run that has returned after its bucket was created and a step
\* of build / deploy / describe failed.
DeployFailed(p) ==
    /\ run[p].pc = "done"
    /\ run[p].command = "setup"
    /\ run[p].bucket_name # None
    /\ run[p].error \in BuildDeployOps

\* The resource log lists the bucket / the service.
ListsBucket(file, bucket) ==
    /\ JsonLoadable(file)
    /\ bucket \in Range(Get(JsonLoad(file), "buckets", << >>))
ListsService(file, service) ==
    /\ JsonLoadable(file)
    /\ Get(JsonLoad(file), "cloud_run_service", None) = service

\* C1 as stated: after a setup run whose bucket was created and whose
\* build/deploy/describe failed, the resource log holds the bucket name in
\* `buckets` and neither `cloud_run_service` nor `cloud_run_url`.
C1_BucketOnlyAfterDeployFailure ==
    \A p \in Procs :
        DeployFailed(p) =>
            /\ JsonLoadable(ledger)
            /\ DOMAIN JsonLoad(ledger) = { "buckets" }
            /\ JsonLoad(ledger).buckets = << run[p].bucket_name >>

\* C1 amended: after such a run the resource log holds exactly the created
\* bucket in `buckets` and the service name in `cloud_run_service` (written
\* before the deploy is attempted), and no `cloud_run_url`.
C1_LedgerAfterDeployFailure ==
    \A p \in Procs :
        DeployFailed(p) =>
            /\ JsonLoadable(ledger)
            /\ DOMAIN JsonLoad(ledger) = { "buckets", "cloud_run_service" }
            /\ JsonLoad(ledger).buckets = << run[p].bucket_name >>
            /\ JsonLoad(ledger).cloud_run_service = run[p].service_name

C1_Witness ==
    \E p \in Procs :
        /\ DeployFailed(p)
        /\ run[p].error = "gcloud_run_deploy"
        /\ ListsBucket(ledger, run[p].bucket_name)

\* C2: at the moment right after a creation call has returned (the bucket
\* exists and the first write has not begun; the service is deployed and
\* describe has not begun), the resource log on disk lists the resource
\* just created, so a process that dies there leaves it discoverable.
C2_CreatedIsPersisted ==
    \A p \in Procs :
        /\ run[p].pc = "open_first" =>
               ListsBucket(ledger, run[p].bucket_name)
        /\ run[p].pc = "describe" =>
               ListsService(ledger, run[p].service_name)

\* No invocation is under way.
Quiescent == \A p \in Procs : ~ Running(p)

\* C3: whenever no invocation is under way, the resource log exists if and
\* only if some resource created by an earlier setup run has not been
\* confirmed deleted.  (From Init every bucket and service of the project
\* was created by a setup run, and leaves the project only through a
\* deletion that succeeded.)
C3_LedgerIffResourceOutstanding ==
    Quiescent =>
        ( PathExists(ledger) <=> (cloudBuckets \cup cloudServices) # {} )

\* The deletions a run has attempted so far, in order.
IsDelete(c) == c.op \in { "bucket_delete", "gcloud_run_delete" }
DeleteCalls(r) == SelectSeq(r.calls, IsDelete)

\* A reset run that has loaded the resource log.
ResetLoaded(p) ==
    /\ run[p].command = "reset"
    /\ run[p].created_resources # Unset

Attempted(r, op, name) ==
    \E k \in DOMAIN r.calls : r.calls[k].op = op /\ r.calls[k].arg = name

\* C4: a reset run in which some bucket deletion failed still ends normally
\* having attempted every listed bucket and the listed service, and with
\* the resource log removed.
C4_DeletionTolerance ==
    \A p \in Procs :
        ( /\ ResetLoaded(p)
          /\ \E k \in DOMAIN run[p].calls :
                run[p].calls[k].op = "bucket_delete" /\ ~ run[p].calls[k].ok
          /\ run[p].pc \in { "reset_remove", "done" } ) =>
            LET obj == JsonLoad(run[p].pre_ledger)
            IN  /\ \A b \in Range(Get(obj, "buckets", << >>)) :
                       Attempted(run[p], "bucket_delete", b)
                /\ Truthy(Get(obj, "cloud_run_service", None)) =>
                       Attempted(run[p], "gcloud_run_delete",
                                 obj.cloud_run_service)
                /\ run[p].pc = "done" =>
                       /\ ~ PathExists(ledger)
                       /\ run[p].report = "ResetComplete"
                       /\ run[p].exit_code = 0

C4_Witness ==
    \E p \in Procs :
        /\ ResetLoaded(p)
        /\ run[p].pc = "done"
        /\ Len(Get(run[p].created_resources, "buckets", << >>)) = 2
        /\ run[p].created_resources.buckets[1]
             # run[p].created_resources.buckets[2]
        /\ Truthy(Get(run[p].created_resources, "cloud_run_service", None))
        /\ Len(DeleteCalls(run[p])) = 3
        /\ ~ DeleteCalls(run[p])[1].ok
        /\ DeleteCalls(run[p])[2].ok
        /\ ~ PathExists(ledger)

\* The reports with which a command stops before it does its work: the
\* credentials could not be loaded, or --project was missing.
PreconditionReports ==
    { "CredentialNotFound", "Traceback:load_credentials", "ProjectRequired" }

\* A reset run with usable credentials that directly follows another one.
SecondReset(p) ==
    /\ run[p].command = "reset"
    /\ run[p].creds = "ok"
    /\ Truthy(run[p].project)
    /\ run[p].prev_command = "reset"
    /\ run[p].prev_report \notin PreconditionReports

\* C5: a reset that directly follows a reset finds no resource log, reports
\* that there is nothing to delete, attempts no deletion, exits 0 and leaves
\* the log absent.
C5_ResetIdempotent ==
    \A p \in Procs :
        SecondReset(p) =>
            /\ ~ PathExists(ledger)
            /\ DeleteCalls(run[p]) = << >>
            /\ run[p].pc = "done" =>
                   /\ run[p].report = "NothingToDo"
                   /\ run[p].exit_code = 0

C5_Witness ==
    \E p \in Procs :
        /\ SecondReset(p)
        /\ run[p].prev_report = "ResetComplete"
        /\ run[p].pc = "done"
        /\ run[p].report = "NothingToDo"
        /\ cloudBuckets # {}

\* C6: a setup run whose bucket creation failed has ended, has written
\* nothing to the resource log (it is as it was when the run began) and has
\* made no call after create_bucket.
C6_BucketFailureAborts ==
    \A p \in Procs :
        ( run[p].command = "setup" /\ run[p].error = "create_bucket" ) =>
            /\ run[p].pc = "done"
            /\ ledger = run[p].pre_ledger
            /\ Len(run[p].calls) = 1
            /\ run[p].calls[1].op = "create_bucket"

C6_Witness ==
    \E p \in Procs :
        /\ run[p].command = "setup"
        /\ run[p].error = "create_bucket"
        /\ PathExists(run[p].pre_ledger)
        /\ ledger = run[p].pre_ledger

\* The verification calls a run has made.
IsVerify(c) == c.op = "requests_get"
VerifyCalls(r) == SelectSeq(r.calls, IsVerify)

\* A setup run whose build_and_deploy_cloud_run returned the service URL.
Deployed(p) ==
    /\ run[p].command = "setup"
    /\ run[p].service_url # None

\* C7: once build and deploy have succeeded, setup calls the service URL
\* exactly once, and whatever that call does the run ends with exit code 0,
\* no failure reported, and a resource log holding the bucket, the service
\* name and the service URL.
C7_VerificationNeverFails ==
    \A p \in Procs :
        Deployed(p) =>
            /\ Len(VerifyCalls(run[p])) = IF run[p].pc = "verify" THEN 0 ELSE 1
            /\ run[p].pc = "done" =>
                   /\ run[p].exit_code = 0
                   /\ run[p].report = "SetupComplete"
                   /\ run[p].error = None
                   /\ JsonLoadable(ledger)
                   /\ JsonLoad(ledger) =
                        [ buckets |-> << run[p].bucket_name >>,
                          cloud_run_service |-> run[p].service_name,
                          cloud_run_url |-> run[p].service_url ]

C7_Witness ==
    \E p \in Procs :
        /\ Deployed(p)
        /\ run[p].pc = "done"
        /\ VerifyCalls(run[p])[1].arg = "timeout"
        /\ ListsService(ledger, run[p].service_name)
        /\ JsonLoad(ledger).cloud_run_url = ServiceUrl(run[p].service_name)

\* The deletions a reset run owes to a resource log: its buckets in
\* recorded order, then its service if it names one.
ExpectedDeletes(obj) ==
    [ k \in 1..Len(Get(obj, "buckets", << >>)) |->
        << "bucket_delete", obj.buckets[k] >> ]
    \o ( IF Truthy(Get(obj, "cloud_run_service", None))
         THEN << << "gcloud_run_delete", obj.cloud_run_service >> >>
         ELSE << >> )

Attempts(r) ==
    [ k \in DOMAIN DeleteCalls(r) |->
        << DeleteCalls(r)[k].op, DeleteCalls(r)[k].arg >> ]

IsPrefix(s, t) == Len(s) <= Len(t) /\ s = SubSeq(t, 1, Len(s))

\* C8: the deletions of a reset run are, at every moment, an initial part of
\* the list owed to the resource log it found (buckets in recorded order,
\* then the service), the whole list by the time the log is removed, and a
\* run that has not reached its end has left the log in place.
C8_DeletesExactlyTheLedger ==
    \A p \in Procs :
        run[p].command = "reset" =>
            /\ ~ ResetLoaded(p) => DeleteCalls(run[p]) = << >>
            /\ ResetLoaded(p) =>
                 LET owed == ExpectedDeletes(JsonLoad(run[p].pre_ledger))
                 IN  /\ IsPrefix(Attempts(run[p]), owed)
                     /\ run[p].pc \in { "reset_remove", "done" } =>
                            Attempts(run[p]) = owed
                     /\ run[p].pc = "done" => ~ PathExists(ledger)
            /\ run[p].pc # "done" => ledger = run[p].pre_ledger

C8_Witness ==
    \E p \in Procs :
        /\ ResetLoaded(p)
        /\ run[p].pc = "done"
        /\ Attempts(run[p]) =
             << << "bucket_delete", AllBucketNames[2] >>,
                << "bucket_delete", AllBucketNames[1] >>,
                << "gcloud_run_delete", "svc1" >> >>
        /\ \A k \in 1..3 : DeleteCalls(run[p])[k].ok
        /\ ~ PathExists(ledger)

\* C9: an init run leaves the resource log, the buckets and the services
\* exactly as it found them, whatever the log held and whatever the
\* credential check did.
C9_InitChangesNothing ==
    \A p \in Procs :
        run[p].command = "init" =>
            /\ ledger = run[p].pre_ledger
            /\ cloudBuckets = run[p].pre_buckets
            /\ cloudServices = run[p].pre_services
            /\ \A k \in DOMAIN run[p].calls :
                   run[p].calls[k].op = "list_buckets"

C9_Witness ==
    \E p \in Procs :
        /\ run[p].command = "init"
        /\ run[p].pc = "done"
        /\ run[p].report = "InitFailed"
        /\ JsonLoadable(ledger)
        /\ cloudBuckets # {}

\* An invocation that fails a precondition: the credential path does not
\* exist, or setup / reset was given no --project.
FailsPrecondition(p) ==
    \/ run[p].creds = "missing"
    \/ /\ run[p].command \in { "setup", "reset" }
       /\ ~ Truthy(run[p].project)

\* C10: an invocation that fails a precondition exits with code 1, makes no
\* cloud, gcloud or file call, and leaves the resource log, the buckets and
\* the services as it found them.
C10_PreconditionFailureChangesNothing ==
    \A p \in Procs :
        ( run[p].pc # "idle" /\ FailsPrecondition(p) ) =>
            /\ run[p].calls = << >>
            /\ ledger = run[p].pre_ledger
            /\ cloudBuckets = run[p].pre_buckets
            /\ cloudServices = run[p].pre_services
            /\ run[p].pc \in { "load_credentials", "dispatch", "done" }
            /\ run[p].pc = "done" => run[p].exit_code = 1

C10_Witness ==
    \E p \in Procs :
        /\ run[p].command = "reset"
        /\ run[p].creds = "ok"
        /\ run[p].project = None
        /\ run[p].pc = "done"
        /\ run[p].report = "ProjectRequired"
        /\ JsonLoadable(ledger)

\* The cloud calls at the three operation boundaries.
BoundaryOps ==
    { "create_bucket", "gcloud_run_delete" } \cup BuildDeployOps

\* C11: a run in which a cloud call at an operation boundary (bucket
\* create, service build/deploy, service delete) failed ends normally, with
\* exit code 0 and its closing report, not with a traceback.
C11_BoundaryFailuresAreCaught ==
    \A p \in Procs :
        ( /\ run[p].pc = "done"
          /\ \E k \in DOMAIN run[p].calls :
                /\ run[p].calls[k].op \in BoundaryOps
                /\ ~ run[p].calls[k].ok ) =>
            /\ run[p].exit_code = 0
            /\ run[p].report \in { "SetupComplete", "ResetComplete" }

\* C12: at every point of a setup run the resource log on disk is what it
\* was before the run or the complete record the run is saving, so a
\* reader (or a run that finds the disk after the process died) never
\* meets an empty or partly written file.
C12_SaveIsAtomic ==
    \A p \in Procs :
        run[p].command = "setup" =>
            \/ ledger = run[p].pre_ledger
            \/ /\ JsonLoadable(ledger)
               /\ JsonLoad(ledger) = run[p].created_resources

\* The positions of gcp_setup inside build_and_deploy_cloud_run.
BuildPositions ==
    { "gcloud_auth", "enable_apis", "builds_submit", "run_deploy",
      "describe" }

\* The positions of the calls of kind ops in a run's log.
CallsAt(r, ops) == { k \in DOMAIN r.calls : r.calls[k].op \in ops }

\* C15: in a setup run every write of the resource log follows the
\* creation of the bucket; the first write is complete, and lists the new
\* bucket, before any step of build/deploy starts; a second write happens
\* only after deploy and describe have succeeded; there are at most two.
C15_WriteOrder ==
    \A p \in Procs :
        run[p].command = "setup" =>
            LET r      == run[p]
                writes == CallsAt(r, { "json_dump" })
                builds == CallsAt(r, BuildDeployOps)
            IN  /\ Cardinality(writes) <= 2
                /\ \A w \in writes :
                       r.calls[1].op = "create_bucket" /\ r.calls[1].ok
                /\ ( builds # {} \/ r.pc \in BuildPositions ) =>
                       \E w \in writes : \A b \in builds : w < b
                /\ r.pc \in BuildPositions =>
                       ListsBucket(ledger, r.bucket_name)
                /\ \A w \in writes :
                       ( \E v \in writes : v < w ) =>
                           /\ \E k \in 1..(w - 1) :
                                  /\ r.calls[k].op = "gcloud_run_deploy"
                                  /\ r.calls[k].ok
                           /\ \E k \in 1..(w - 1) :
                                  /\ r.calls[k].op = "gcloud_run_describe"
                                  /\ r.calls[k].ok

C15_Witness ==
    \E p \in Procs :
        /\ run[p].command = "setup"
        /\ run[p].pc = "done"
        /\ Cardinality(CallsAt(run[p], { "json_dump" })) = 2
        /\ PathExists(run[p].pre_ledger)

\* C17: after a setup run whose bucket was created, the `buckets` list of
\* the resource log holds one name, the bucket of that run, whatever the log
\* held before.
C17_SetupReplacesLedger ==
    \A p \in Procs :
        ( /\ run[p].command = "setup"
          /\ run[p].pc = "done"
          /\ run[p].bucket_name # None ) =>
            /\ JsonLoadable(ledger)
            /\ Get(JsonLoad(ledger), "buckets", << >>)
                 = << run[p].bucket_name >>

C17_Witness ==
    \E p \in Procs :
        /\ run[p].command = "setup"
        /\ run[p].pc = "done"
        /\ run[p].bucket_name # None
        /\ JsonLoadable(run[p].pre_ledger)
        /\ \E b \in Range(Get(JsonLoad(run[p].pre_ledger), "buckets", << >>)) :
              /\ b # run[p].bucket_name
              /\ b \in cloudBuckets
              /\ ~ ListsBucket(ledger, b)

\* C13: a reset run that reaches os.remove completes it without error and
\* ends normally, also when another reset removed the file after this run
\* loaded it.
C13_ClearIsNoOpWhenAbsent ==
    \A p \in Procs :
        ( /\ run[p].command = "reset"
          /\ run[p].pc = "done"
          /\ CallsAt(run[p], { "os_remove" }) # {} ) =>
            /\ \A k \in CallsAt(run[p], { "os_remove" }) : run[p].calls[k].ok
            /\ run[p].report = "ResetComplete"
            /\ run[p].exit_code = 0

\* Both invocations were setup runs that wrote the resource log and have
\* ended.
TwoSetupsDone ==
    \A p \in { 1, 2 } :
        /\ run[p].command = "setup"
        /\ run[p].pc = "done"
        /\ CallsAt(run[p], { "json_dump" }) # {}

\* C16: after two interleaved setup runs the resource log is the record
\* one of them wrote last, whole, and does not list the other's bucket.
C16_LastWriterWins ==
    TwoSetupsDone =>
        /\ JsonLoadable(ledger)
        /\ \E p \in { 1, 2 } :
              /\ JsonLoad(ledger) = run[p].created_resources
              /\ \A q \in { 1, 2 } \ { p } :
                     ~ ListsBucket(ledger, run[q].bucket_name)

\* C14: every response to GET / mirrors the upstream fetch: its HTTP status
\* is its example_status field, which is the upstream status code when the
\* fetch returned and 500 when the fetch raised, and example_excerpt is the
\* start of the fetched text, never longer than 2000 characters.
C14_ResponseMirrorsUpstream ==
    web.pc = "sent" =>
        /\ web.response.status = web.response.info.example_status
        /\ web.response.info.example_status =
              IF web.upstream.raised THEN 500 ELSE web.upstream.status
        /\ web.response.info.example_excerpt.len <= 2000
        /\ web.response.info.example_excerpt.kind = web.body.kind
        /\ web.response.info.example_excerpt.len <= web.body.len

\* A response has been sent for an upstream text longer than the limit,
\* cut to the limit, and for a fetch that raised.
C14_Witness ==
    /\ web.pc = "sent"
    /\ web.body.len > 2000
    /\ web.response.info.example_excerpt.len = 2000
    /\ web.upstream.raised
    /\ web.response.status = 500

====
